---------------------------- MODULE Spec2Model ----------------------------
(***************************************************************************)
(* Model of the demo receiver (examples/demo-rx.py): the loop that         *)
(* subscribes to the server-sent event stream of transmissions, backfills  *)
(* sequence-number gaps by direct lookup (catch_up) and writes every       *)
(* message, framed, to the output pipe.                                    *)
(*                                                                         *)
(* The receiver is one thread of control, so the handling of one event     *)
(* (the body of the "for event in client.events()" loop, catch_up and the  *)
(* fetches it makes included) is one action.  The outcome of every HTTP    *)
(* request the handler makes is an input of the action.                    *)
(***************************************************************************)
EXTENDS Integers, Naturals, Sequences, FiniteSets, TLC

VARIABLES
    pc,            \* position of main(): "connecting", "streaming", "terminated"
    last_seq_num,  \* main()'s last_seq_num (None before the first message)
    pipe,          \* the byte records written to pipe_f, in order
    tx_base,       \* server: tx_seq_num of the first message sent in this run
    tx_count,      \* server: number of messages sent so far in this run
    last_op,       \* history: what the receiver's latest step did
    fetches_ok     \* history: every Message Store request so far returned 200

vars == <<pc, last_seq_num, pipe, tx_base, tx_count, last_op, fetches_ok>>

-----------------------------------------------------------------------------
(* Bounds of the model *)

\* Width of the sequence-number space of the model.  The program's modulus
\* is 2 ** 31; the model keeps the modular arithmetic and scales the width.
SeqBits == 3

\* Number of messages the server sends in one run (kept below the modulus,
\* so that a sequence number identifies one message of the run).
MaxEmit == 4

-----------------------------------------------------------------------------
(* Program constants *)

MAX_SEQ_NUM == 2 ^ SeqBits

OUT_DATA_DELIMITER ==
    << 118, 121, 113, 122, 98, 101, 102, 114, 115, 110, 122, 113, 97, 104, 103, 100,
       107, 114, 115, 105, 100, 122, 105, 103, 120, 118, 114, 112, 112, 97, 116, 111,
       224, 224, 36, 26, 228, 91, 34, 181, 90, 11, 118, 23, 167, 167, 157, 165,
       214, 0, 87, 125, 77, 166, 84, 79, 218, 55, 250, 101, 117, 58, 172, 220 >>

\* Python's None, for last_seq_num
None == -1

SeqNums == 0 .. (MAX_SEQ_NUM - 1)

-----------------------------------------------------------------------------
(* Frame encoder *)

\* struct.pack of one 'Q' field: 8 bytes, least significant first
RECURSIVE PackQ(_, _)
PackQ(n, width) ==
    IF width = 0 THEN << >>
    ELSE << n % 256 >> \o PackQ(n \div 256, width - 1)

\* struct.pack('64sQ', delimiter, length)
OutDataHeader(length) == OUT_DATA_DELIMITER \o PackQ(length, 8)

\* Variant of create_output_data_struct whose length field counts the whole
\* record
create_output_data_struct_total_len(data) ==
    OutDataHeader(Len(OUT_DATA_DELIMITER) + 8 + Len(data)) \o data

create_output_data_struct(data) == OutDataHeader(Len(data)) \o data

-----------------------------------------------------------------------------
(* Server and Message Store *)

\* tx_seq_num of the k-th message the server sends in this run (k >= 1)
TxSeqNum(k) == (tx_base + k - 1) % MAX_SEQ_NUM

\* Content of the message with sequence number s: its first byte names the
\* message, its length varies with the message.
MessageData(s) == [i \in 1 .. (1 + (s % 3)) |-> s]

\* Outcomes of one Message Store request (requests.get + raise_for_status):
\*   "ok"                    status 200
\*   "other_status"          a status below 400 that is not 200
\*   "HTTPError"             raise_for_status raises (4xx, 5xx)
\*   "ChunkedEncodingError"  requests.get raises ChunkedEncodingError
FetchOutcomes == {"ok", "other_status", "HTTPError", "ChunkedEncodingError"}

Raises(outcome) == outcome \in {"HTTPError", "ChunkedEncodingError"}

-----------------------------------------------------------------------------
(* Gap resolver: catch_up *)

\* Python's range(a, b) as a sequence
Range(a, b) == [i \in 1 .. (IF b > a THEN b - a ELSE 0) |-> a + i - 1]

\* Variants of missing_num, each with one slip
\* ... the range stops one short of the last missing number
missing_num_short(current_seq_num, last_seq_num_arg) ==
    IF current_seq_num < last_seq_num_arg
    THEN LET unwrapped_range ==
                 Range(last_seq_num_arg + 1, current_seq_num + MAX_SEQ_NUM - 1)
         IN  [i \in 1 .. Len(unwrapped_range) |->
                  unwrapped_range[i] % MAX_SEQ_NUM]
    ELSE Range(last_seq_num_arg + 1, current_seq_num - 1)

\* ... the range starts at last_seq_num itself
missing_num_from_last(current_seq_num, last_seq_num_arg) ==
    IF current_seq_num < last_seq_num_arg
    THEN LET unwrapped_range ==
                 Range(last_seq_num_arg + 1, current_seq_num + MAX_SEQ_NUM)
         IN  [i \in 1 .. Len(unwrapped_range) |->
                  unwrapped_range[i] % MAX_SEQ_NUM]
    ELSE Range(last_seq_num_arg, current_seq_num)

\* ... the unwrapped numbers are not wrapped back
missing_num_no_wrap_back(current_seq_num, last_seq_num_arg) ==
    IF current_seq_num < last_seq_num_arg
    THEN Range(last_seq_num_arg + 1, current_seq_num + MAX_SEQ_NUM)
    ELSE Range(last_seq_num_arg + 1, current_seq_num)

\* ... a repeated number is unwrapped like a smaller one
missing_num_le(current_seq_num, last_seq_num_arg) ==
    IF current_seq_num <= last_seq_num_arg
    THEN LET unwrapped_range ==
                 Range(last_seq_num_arg + 1, current_seq_num + MAX_SEQ_NUM)
         IN  [i \in 1 .. Len(unwrapped_range) |->
                  unwrapped_range[i] % MAX_SEQ_NUM]
    ELSE Range(last_seq_num_arg + 1, current_seq_num)

\* The list missing_num that catch_up computes from its two arguments
missing_num(current_seq_num, last_seq_num_arg) ==
    IF current_seq_num < last_seq_num_arg
    THEN LET unwrapped_range ==
                 Range(last_seq_num_arg + 1, current_seq_num + MAX_SEQ_NUM)
         IN  [i \in 1 .. Len(unwrapped_range) |->
                  unwrapped_range[i] % MAX_SEQ_NUM]
    ELSE Range(last_seq_num_arg + 1, current_seq_num)

\* The "for seq_num in missing_num" loop from position i on.  outs[i] is the
\* outcome of the request for missing[i]; acc carries the pipe, the sequence
\* numbers requested so far with the outcome of each request, and the
\* exception that left the loop, if any.
RECURSIVE catch_up_loop(_, _, _, _)
catch_up_loop(missing, outs, i, acc) ==
    IF i > Len(missing) THEN acc
    ELSE LET asked == [acc EXCEPT !.fetched = Append(@, missing[i]),
                                  !.results = Append(@, outs[i])]
         IN  IF Raises(outs[i])
             THEN [asked EXCEPT !.exc = outs[i]]
             ELSE IF outs[i] = "ok"
             THEN catch_up_loop(missing, outs, i + 1,
                      [asked EXCEPT !.pipe =
                          Append(@, create_output_data_struct(
                                        MessageData(missing[i])))])
             ELSE catch_up_loop(missing, outs, i + 1, asked)

\* catch_up(pipe_f, server_addr, current_seq_num, last_seq_num)
catch_up(pipe_f, current_seq_num, last_seq_num_arg, outs) ==
    catch_up_loop(missing_num(current_seq_num, last_seq_num_arg), outs, 1,
                  [pipe |-> pipe_f, fetched |-> << >>, results |-> << >>,
                   exc |-> "none"])

-----------------------------------------------------------------------------
(* History record of the receiver's latest step *)

Op(op, seq, before, fetched, results, live, wrote, exc, fresh) ==
    [op      |-> op,       \* which step
     seq     |-> seq,      \* tx_seq_num of the handled notification, or None
     before  |-> before,   \* last_seq_num when the step began
     fetched |-> fetched,  \* sequence numbers requested by catch_up, in order
     results |-> results,  \* outcome of each of these requests
     live    |-> live,     \* outcome of fetch_api_data, or "none"
     wrote   |-> wrote,    \* number of records the step wrote to the pipe
     exc     |-> exc,      \* exception that ended the step, or "none"
     fresh   |-> fresh]    \* first event handled on a new connection

PlainOp(op, exc) ==
    Op(op, None, last_seq_num, << >>, << >>, "none", 0, exc, FALSE)

\* Where main() continues after an exception inside the try block: only
\* ChunkedEncodingError is caught (and the while loop reconnects)
AfterException(exc) ==
    IF exc = "ChunkedEncodingError" THEN "connecting" ELSE "terminated"

-----------------------------------------------------------------------------
(* Initial state: main() up to "while (True)" *)

Init ==
    /\ pc = "connecting"
    /\ last_seq_num = None
    /\ pipe = << >>
    /\ tx_base \in SeqNums
    /\ tx_count = 0
    /\ last_op = PlainOp("start", "none")
    /\ fetches_ok = TRUE

-----------------------------------------------------------------------------
(* Event stream client *)

\* Variant of Connect in which every new subscription forgets the watermark
Connect_resets ==
    /\ pc = "connecting"
    /\ pc' = "streaming"
    /\ last_seq_num' = None
    /\ last_op' = PlainOp("connect", "none")
    /\ UNCHANGED <<pipe, tx_base, tx_count, fetches_ok>>

\* requests.get(".../subscribe/transmissions", stream=True) succeeds
Connect ==
    /\ pc = "connecting"
    /\ pc' = "streaming"
    /\ last_op' = PlainOp("connect", "none")
    /\ UNCHANGED <<last_seq_num, pipe, tx_base, tx_count, fetches_ok>>

\* requests.get of the subscription raises (no route, connection refused):
\* the exception is not ChunkedEncodingError and leaves main()
ConnectFails ==
    /\ pc = "connecting"
    /\ pc' = AfterException("ConnectionError")
    /\ last_op' = PlainOp("connect", "ConnectionError")
    /\ UNCHANGED <<last_seq_num, pipe, tx_base, tx_count, fetches_ok>>

\* client.events() is exhausted (the server closed the stream): the for loop
\* ends and the while loop subscribes again
StreamEnds ==
    /\ pc = "streaming"
    /\ pc' = "connecting"
    /\ last_op' = PlainOp("events", "none")
    /\ UNCHANGED <<last_seq_num, pipe, tx_base, tx_count, fetches_ok>>

\* reading the next event raises: ChunkedEncodingError (truncated chunked
\* transfer) is caught, any other transport error is not
StreamFails(exc) ==
    /\ pc = "streaming"
    /\ pc' = AfterException(exc)
    /\ last_op' = PlainOp("events", exc)
    /\ UNCHANGED <<last_seq_num, pipe, tx_base, tx_count, fetches_ok>>

\* The server sends a message while the receiver has no subscription open:
\* its notification is never received
EmitUnseen ==
    /\ pc = "connecting"
    /\ tx_count < MaxEmit
    /\ tx_count' = tx_count + 1
    /\ UNCHANGED <<pc, last_seq_num, pipe, tx_base, last_op, fetches_ok>>

-----------------------------------------------------------------------------
(* Message fetcher *)

\* fetch_api_data(server_addr, uuid) for the message announced with
\* sequence number seq_num, the request ending with the given outcome:
\* raises, returns the content (status 200), or falls off the end of the
\* function and returns None
fetch_api_data(seq_num, outcome) ==
    [exc     |-> IF Raises(outcome) THEN outcome ELSE "none",
     is_none |-> outcome # "ok",
     data    |-> IF outcome = "ok" THEN MessageData(seq_num) ELSE << >>]

-----------------------------------------------------------------------------
(* Synchronizer loop: the body of "for event in client.events()" *)

\* Variant of CallsCatchUp that sees a gap only when the number is above the
\* expected one
CallsCatchUp_forward_only(seq_num) ==
    /\ last_seq_num # None
    /\ seq_num > (last_seq_num + 1) % MAX_SEQ_NUM

\* Variant of CallsCatchUp without the test for a first message
CallsCatchUp_no_baseline(seq_num) ==
    seq_num # (last_seq_num + 1) % MAX_SEQ_NUM

\* Whether main() calls catch_up for a notification with sequence number
\* seq_num
CallsCatchUp(seq_num) ==
    /\ last_seq_num # None
    /\ seq_num # (last_seq_num + 1) % MAX_SEQ_NUM

\* Number of Message Store requests the handling of seq_num can make
NumRequests(seq_num) ==
    IF CallsCatchUp(seq_num)
    THEN Len(missing_num(seq_num, last_seq_num)) + 1
    ELSE 1

\* Variant of WriteLive with the test inverted
WriteLive_inverted(pipe_f, fetched) ==
    IF ~fetched.is_none THEN pipe_f
    ELSE Append(pipe_f, create_output_data_struct(fetched.data))

\* The pipe after "if (data is not None): ... pipe_f.write(data_struct)"
WriteLive(pipe_f, fetched) ==
    IF fetched.is_none THEN pipe_f
    ELSE Append(pipe_f, create_output_data_struct(fetched.data))

\* Variant of RecordSeqNum that records only a message that was written
RecordSeqNum_if_written(seq_num, fetched) ==
    IF fetched.is_none THEN last_seq_num ELSE seq_num

\* last_seq_num after the handling of seq_num ran to its last statement
RecordSeqNum(seq_num, fetched) == seq_num

\* An event whose order has status "sent": the server has just sent the
\* message, outs[i] is the outcome of the i-th request of the handler (the
\* last one is the fetch by uuid).
HandleSent(outs) ==
    /\ pc = "streaming"
    /\ tx_count < MaxEmit
    /\ tx_count' = tx_count + 1
    /\ LET seq_num == TxSeqNum(tx_count + 1)
           cu      == IF CallsCatchUp(seq_num)
                      THEN catch_up(pipe, seq_num, last_seq_num, outs)
                      ELSE [pipe |-> pipe, fetched |-> << >>,
                            results |-> << >>, exc |-> "none"]
           live    == outs[Len(outs)]
           fetched == fetch_api_data(seq_num, live)
           fresh   == last_op.op = "connect"
       IN  IF cu.exc # "none"
           THEN /\ pipe' = cu.pipe
                /\ last_seq_num' = last_seq_num
                /\ pc' = AfterException(cu.exc)
                /\ fetches_ok' = FALSE
                /\ last_op' = Op("sent", seq_num, last_seq_num, cu.fetched,
                                 cu.results, "none", Len(cu.pipe) - Len(pipe), cu.exc,
                                 fresh)
           ELSE IF fetched.exc # "none"
           THEN /\ pipe' = cu.pipe
                /\ last_seq_num' = last_seq_num
                /\ pc' = AfterException(fetched.exc)
                /\ fetches_ok' = FALSE
                /\ last_op' = Op("sent", seq_num, last_seq_num, cu.fetched,
                                 cu.results, live, Len(cu.pipe) - Len(pipe), fetched.exc,
                                 fresh)
           ELSE /\ pipe' = WriteLive(cu.pipe, fetched)
                /\ last_seq_num' = RecordSeqNum(seq_num, fetched)
                /\ pc' = "streaming"
                /\ fetches_ok' =
                       (fetches_ok /\ \A i \in DOMAIN outs : outs[i] = "ok")
                /\ last_op' = Op("sent", seq_num, last_seq_num, cu.fetched,
                                 cu.results, live, Len(pipe') - Len(pipe), "none", fresh)
    /\ UNCHANGED tx_base

\* Variant of HandleOther without the test of the status: the message of
\* the order is written and recorded like a sent one
HandleOther_unfiltered(status) ==
    /\ pc = "streaming"
    /\ pipe' = Append(pipe, create_output_data_struct(
                                MessageData(TxSeqNum(tx_count + 1))))
    /\ last_seq_num' = TxSeqNum(tx_count + 1)
    /\ last_op' = Op("skipped_" \o status, None, last_seq_num, << >>, << >>,
                     "none", 0, "none", last_op.op = "connect")
    /\ UNCHANGED <<pc, tx_base, tx_count, fetches_ok>>

\* An event whose order has another status: the "if" is skipped
HandleOther(status) ==
    /\ pc = "streaming"
    /\ last_op' = Op("skipped_" \o status, None, last_seq_num, << >>, << >>,
                     "none", 0, "none", last_op.op = "connect")
    /\ UNCHANGED <<pc, last_seq_num, pipe, tx_base, tx_count, fetches_ok>>

\* An event that does not decode: json.loads raises ValueError, a missing
\* field raises KeyError; neither is caught
HandleMalformed(exc) ==
    /\ pc = "streaming"
    /\ pc' = AfterException(exc)
    /\ last_op' = Op("malformed", None, last_seq_num, << >>, << >>, "none", 0, exc,
                     last_op.op = "connect")
    /\ UNCHANGED <<last_seq_num, pipe, tx_base, tx_count, fetches_ok>>

-----------------------------------------------------------------------------

Next ==
    \/ Connect
    \/ ConnectFails
    \/ StreamEnds
    \/ \E exc \in {"ChunkedEncodingError", "ConnectionError"} :
           StreamFails(exc)
    \/ EmitUnseen
    \/ \E outs \in [1 .. NumRequests(TxSeqNum(tx_count + 1)) ->
                       FetchOutcomes] : HandleSent(outs)
    \/ \E status \in {"pending", "paid", "transmitting"} : HandleOther(status)
    \/ \E exc \in {"ValueError", "KeyError"} : HandleMalformed(exc)

Spec == Init /\ [][Next]_vars

-----------------------------------------------------------------------------
(* catch_up on its own: one call with arbitrary arguments *)

\* Outcomes of the n requests of one call of which at most one, the k-th,
\* does not return 200
OneFault(n, k, outcome) == [i \in 1 .. n |-> IF i = k THEN outcome ELSE "ok"]

InitCatchUp ==
    /\ pc = "streaming"
    /\ last_seq_num \in SeqNums
    /\ pipe = << >>
    /\ tx_base = 0
    /\ tx_count = 0
    /\ last_op = PlainOp("start", "none")
    /\ fetches_ok = TRUE

\* catch_up(pipe_f, server_addr, current_seq_num, last_seq_num), called once
CallCatchUp(current_seq_num, outs) ==
    /\ last_op.op = "start"
    /\ LET cu == catch_up(pipe, current_seq_num, last_seq_num, outs)
       IN  /\ pipe' = cu.pipe
           /\ fetches_ok' = \A i \in DOMAIN cu.results : cu.results[i] = "ok"
           /\ last_op' = Op("catch_up", current_seq_num, last_seq_num,
                            cu.fetched, cu.results, "none",
                            Len(cu.pipe) - Len(pipe), cu.exc, FALSE)
    /\ UNCHANGED <<pc, last_seq_num, tx_base, tx_count>>

NextCatchUp ==
    \E current_seq_num \in SeqNums :
        LET n == Len(missing_num(current_seq_num, last_seq_num))
        IN  \E k \in 0 .. n, outcome \in FetchOutcomes :
                CallCatchUp(current_seq_num, OneFault(n, k, outcome))

SpecCatchUp == InitCatchUp /\ [][NextCatchUp]_vars

-----------------------------------------------------------------------------
(* The handling of one sent notification on its own: any watermark, any
   announced sequence number *)

InitHandler ==
    /\ pc = "streaming"
    /\ last_seq_num \in SeqNums \cup {None}
    /\ pipe = << >>
    /\ tx_base \in SeqNums
    /\ tx_count = 0
    /\ last_op = PlainOp("start", "none")
    /\ fetches_ok = TRUE

\* the notification of the message with number tx_base is handled, at most
\* one of the requests not returning 200
NextHandler ==
    /\ tx_count = 0
    /\ LET n == NumRequests(TxSeqNum(1))
       IN  \E k \in 0 .. n, outcome \in FetchOutcomes :
               HandleSent(OneFault(n, k, outcome))

SpecHandler == InitHandler /\ [][NextHandler]_vars

-----------------------------------------------------------------------------
(* The frame encoder on its own: one payload framed and written *)

\* Longest of the payloads enumerated byte by byte
MaxPayloadLen == 4

PayloadBytes == {0, 118, 255}

\* Payloads whose length needs the second byte of the length field
LongPayloads == {[i \in 1 .. n |-> i % 256] : n \in {255, 256, 300}}

Payloads ==
    UNION {[1 .. n -> PayloadBytes] : n \in 0 .. MaxPayloadLen}
        \cup LongPayloads

InitFrame ==
    /\ pc = "streaming"
    /\ last_seq_num = None
    /\ pipe = << >>
    /\ tx_base = 0
    /\ tx_count = 0
    /\ last_op = PlainOp("start", "none")
    /\ fetches_ok = TRUE

\* data_struct = create_output_data_struct(data); pipe_f.write(data_struct)
WriteFrame(data) ==
    /\ last_op.op = "start"
    /\ pipe' = Append(pipe, create_output_data_struct(data))
    /\ last_op' = [op |-> "encode", data |-> data]
    /\ UNCHANGED <<pc, last_seq_num, tx_base, tx_count, fetches_ok>>

NextFrame == \E data \in Payloads : WriteFrame(data)

SpecFrame == InitFrame /\ [][NextFrame]_vars

-----------------------------------------------------------------------------
(* Reading the pipe back, and the sequence arithmetic of the claims *)

\* struct.unpack of one 'Q' field, least significant byte first
RECURSIVE UnpackQ(_)
UnpackQ(bytes) ==
    IF bytes = << >> THEN 0
    ELSE bytes[1] + 256 * UnpackQ(Tail(bytes))

HeaderLen == Len(OUT_DATA_DELIMITER) + 8

\* Payload of a record of the pipe
FramePayload(frame) == SubSeq(frame, HeaderLen + 1, Len(frame))

\* Sequence number of the message a record carries
FrameSeqNum(frame) == FramePayload(frame)[1]

\* Position in the run of the message with sequence number s (fewer than
\* MAX_SEQ_NUM messages are sent in a run)
TxIndex(s) == ((s - tx_base) % MAX_SEQ_NUM) + 1

\* Sequence numbers of the records written so far, in pipe order
PipeSeqNums == [i \in 1 .. Len(pipe) |-> FrameSeqNum(pipe[i])]

\* Sequence numbers of the records the latest step wrote
WrittenSeqNums ==
    [i \in 1 .. last_op.wrote |-> PipeSeqNums[Len(pipe) - last_op.wrote + i]]

\* The numbers strictly between l and c, in modular increasing order (none
\* when c repeats l)
Between(l, c) ==
    IF c = l THEN << >>
    ELSE [i \in 1 .. ((c - l - 1) % MAX_SEQ_NUM) |-> (l + i) % MAX_SEQ_NUM]

AllOk(results) == \A i \in DOMAIN results : results[i] = "ok"

IsPrefix(s, t) == Len(s) <= Len(t) /\ s = SubSeq(t, 1, Len(s))

\* The latest step handled a sent notification that found a gap
HandledGap ==
    /\ last_op.op = "sent"
    /\ last_op.before # None
    /\ last_op.seq # (last_op.before + 1) % MAX_SEQ_NUM

-----------------------------------------------------------------------------
(* Claims *)

\* C1: exactly-once delivery: no message (identified by its sequence number)
\* is written to the pipe more than once.
C1_ExactlyOnce ==
    \A i, j \in 1 .. Len(pipe) :
        i # j => PipeSeqNums[i] # PipeSeqNums[j]

\* C2: delivery order equals sequence order: the records written so far are
\* in strictly increasing order of server emission.
C2_DeliveryInSeqOrder ==
    \A i \in 1 .. (Len(pipe) - 1) :
        TxIndex(PipeSeqNums[i]) < TxIndex(PipeSeqNums[i + 1])

\* C3: no loss across reconnection: while every Message Store request has
\* returned 200, once a sent notification has been handled the pipe holds a
\* record for every sequence number from the first delivered one up to the
\* watermark.
C3_NoLossWhenFetchesOk ==
    (fetches_ok /\ last_seq_num # None) =>
        /\ Len(pipe) >= 1
        /\ \A k \in 0 .. (TxIndex(last_seq_num) - TxIndex(PipeSeqNums[1])) :
               \E i \in 1 .. Len(pipe) :
                   PipeSeqNums[i] = (PipeSeqNums[1] + k) % MAX_SEQ_NUM

C3_Witness ==
    /\ fetches_ok
    /\ HandledGap
    /\ last_op.fresh
    /\ last_op.exc = "none"
    /\ Len(last_op.fetched) >= 2
    /\ last_seq_num = last_op.seq

\* C4: gap resolution without wraparound: for last < current the sequence
\* numbers catch_up requests are exactly last+1, ..., current-1, each once,
\* in increasing order (none when current = last+1); a call that an
\* exception ends has requested a prefix of them.
C4_GapNoWrap ==
    (last_op.op = "catch_up" /\ last_op.before < last_op.seq) =>
        LET expected == [i \in 1 .. (last_op.seq - last_op.before - 1) |->
                             last_op.before + i]
        IN  IF last_op.exc = "none"
            THEN last_op.fetched = expected
            ELSE IsPrefix(last_op.fetched, expected)

C4_Witness ==
    /\ last_op.op = "catch_up"
    /\ last_op.before < last_op.seq
    /\ last_op.exc = "none"
    /\ Len(last_op.fetched) >= 3
    /\ last_op.fetched[1] = last_op.before + 1

\* C5: gap resolution with wraparound: for current < last the sequence
\* numbers catch_up requests are (last+1) mod M, ..., (current-1) mod M in
\* that order, current + M - last - 1 of them, all in [0, M) and none equal
\* to last or current; for current = last nothing is requested and the call
\* returns.
C5_GapWrap ==
    (last_op.op = "catch_up" /\ last_op.seq <= last_op.before) =>
        IF last_op.seq = last_op.before
        THEN last_op.fetched = << >> /\ last_op.exc = "none"
                 /\ last_op.wrote = 0
        ELSE LET n == last_op.seq + MAX_SEQ_NUM - last_op.before - 1
                 expected == [i \in 1 .. n |->
                                  (last_op.before + i) % MAX_SEQ_NUM]
             IN  /\ \A i \in 1 .. n :
                        /\ expected[i] \in SeqNums
                        /\ expected[i] # last_op.before
                        /\ expected[i] # last_op.seq
                 /\ IF last_op.exc = "none"
                    THEN last_op.fetched = expected
                    ELSE IsPrefix(last_op.fetched, expected)

C5_Witness ==
    /\ last_op.op = "catch_up"
    /\ last_op.before = MAX_SEQ_NUM - 2
    /\ last_op.seq = 1
    /\ last_op.exc = "none"
    /\ last_op.fetched = << MAX_SEQ_NUM - 1, 0 >>

\* C6: backfill precedes the live message: when a sent notification finds a
\* gap and every request returns 200, the records written while handling it
\* are the missing messages in modular increasing order followed by the
\* announced one, gap size plus one records in all.
C6_BackfillPrecedesLive ==
    (HandledGap /\ last_op.exc = "none" /\ AllOk(last_op.results)
         /\ last_op.live = "ok") =>
        /\ WrittenSeqNums =
               Between(last_op.before, last_op.seq) \o << last_op.seq >>
        /\ last_op.wrote = Len(Between(last_op.before, last_op.seq)) + 1

C6_Witness ==
    /\ HandledGap
    /\ last_op.before = MAX_SEQ_NUM - 2
    /\ last_op.seq = 1
    /\ WrittenSeqNums = << MAX_SEQ_NUM - 1, 0, 1 >>

\* C7: the watermark survives reconnection: neither the end of a stream nor
\* a new subscription changes last_seq_num, and when the first notification
\* on a new connection is two past the watermark exactly one request by
\* sequence number, for the number in between, is made before the announced
\* message is delivered.
C7_WatermarkSurvivesReconnect ==
    /\ (last_op.op \in {"connect", "events"}) =>
           last_seq_num = last_op.before
    /\ (last_op.op = "sent" /\ last_op.fresh /\ last_op.before # None
            /\ last_op.seq = (last_op.before + 2) % MAX_SEQ_NUM) =>
           /\ last_op.fetched = << (last_op.before + 1) % MAX_SEQ_NUM >>
           /\ (last_op.results = << "ok" >> /\ last_op.live = "ok") =>
                  WrittenSeqNums = << (last_op.before + 1) % MAX_SEQ_NUM,
                                      last_op.seq >>

C7_Witness ==
    /\ last_op.op = "sent"
    /\ last_op.fresh
    /\ last_op.before # None
    /\ last_op.seq = (last_op.before + 2) % MAX_SEQ_NUM
    /\ last_op.fetched = << (last_op.before + 1) % MAX_SEQ_NUM >>
    /\ last_op.live = "ok"
    /\ last_seq_num = last_op.seq

\* C8: backfill is skip-and-continue: when the request for one missing
\* number of a multi-item gap fails with an HTTP error, the remaining
\* missing numbers are still requested, the announced message is still
\* fetched, and the process keeps running.
C8_BackfillSkipAndContinue ==
    (HandledGap /\ Len(Between(last_op.before, last_op.seq)) >= 2
         /\ \E i \in DOMAIN last_op.results :
                /\ last_op.results[i] = "HTTPError"
                /\ \A j \in DOMAIN last_op.results \ {i} :
                       last_op.results[j] = "ok") =>
        /\ pc # "terminated"
        /\ last_op.fetched = Between(last_op.before, last_op.seq)
        /\ last_op.live # "none"

\* C9: the watermark advances only after a successful write: when handling
\* a sent notification sets last_seq_num to its sequence number, the last
\* record written carries that message.
C9_WatermarkOnlyAfterWrite ==
    (last_op.op = "sent" /\ last_op.exc = "none"
         /\ last_seq_num = last_op.seq) =>
        /\ last_op.wrote >= 1
        /\ PipeSeqNums[Len(pipe)] = last_op.seq

\* C10: stream failures are never fatal: an exception raised while
\* subscribing or while reading events does not terminate the process.
C10_StreamFailureNotFatal ==
    (last_op.op \in {"connect", "events"} /\ last_op.exc # "none") =>
        pc # "terminated"

\* C11: the watermark follows every delivered message, backfilled ones
\* included: after a step that wrote records, last_seq_num is the sequence
\* number of the last record written.  (Stated for the steps in which no
\* fetch by uuid came back without data, the case of C9.)
C11_WatermarkFollowsEveryFrame ==
    (last_op.op = "sent" /\ last_op.wrote >= 1
         /\ last_op.live # "other_status") =>
        last_seq_num = PipeSeqNums[Len(pipe)]

\* C12: no baseline, no backfill: a sent notification handled while the
\* watermark is unset makes no request by sequence number; only the
\* announced message is fetched and, when the fetch returns it, written.
C12_NoBaselineNoBackfill ==
    (last_op.op = "sent" /\ last_op.before = None) =>
        /\ last_op.fetched = << >>
        /\ last_op.live # "none"
        /\ last_op.wrote <= 1
        /\ (last_op.live = "ok") => WrittenSeqNums = << last_op.seq >>

C12_Witness ==
    /\ last_op.op = "sent"
    /\ last_op.before = None
    /\ last_op.seq >= 2
    /\ last_op.live = "ok"
    /\ pipe = << create_output_data_struct(MessageData(last_op.seq)) >>

\* C13: no gap, no backfill: a sent notification whose sequence number is
\* (watermark + 1) mod M, the step from M-1 to 0 included, makes no request
\* by sequence number and, when the fetch returns the message, writes
\* exactly one record, the announced one, at the end of the pipe.
C13_NoGapNoBackfill ==
    (last_op.op = "sent" /\ last_op.before # None
         /\ last_op.seq = (last_op.before + 1) % MAX_SEQ_NUM) =>
        /\ last_op.fetched = << >>
        /\ last_op.live # "none"
        /\ (last_op.live = "ok") =>
               /\ last_op.wrote = 1
               /\ WrittenSeqNums = << last_op.seq >>
               /\ last_seq_num = last_op.seq

\* three notifications in a row without a gap, across the wrap: three records
C13_Witness ==
    /\ last_op.op = "sent"
    /\ last_op.before = 0
    /\ last_op.seq = 1
    /\ fetches_ok
    /\ PipeSeqNums = << MAX_SEQ_NUM - 1, 0, 1 >>

SkippedOps == {"skipped_pending", "skipped_paid", "skipped_transmitting"}

\* C14: notifications whose status is not sent are ignored: the step that
\* handles one makes no Message Store request, writes nothing to the pipe,
\* leaves the watermark as it is and stays on the open stream.
C14_OtherStatusIgnored ==
    [][(pc = "streaming" /\ last_op'.op \in SkippedOps) =>
           /\ pipe' = pipe
           /\ last_seq_num' = last_seq_num
           /\ pc' = "streaming"
           /\ fetches_ok' = fetches_ok
           /\ tx_count' = tx_count
           /\ last_op'.fetched = << >>
           /\ last_op'.live = "none"]_vars

C14_Witness ==
    /\ last_op.op \in SkippedOps
    /\ pc = "streaming"
    /\ last_seq_num # None
    /\ Len(pipe) >= 2

\* C15: a decoding failure on one event skips only that event: the process
\* keeps running on the same connection with the watermark unchanged.
C15_MalformedEventSkipped ==
    (last_op.op = "malformed") =>
        /\ pc = "streaming"
        /\ last_seq_num = last_op.before

\* C16: a failed live fetch never stops the synchronizer: when the fetch by
\* uuid of the announced message fails with an HTTP error, the message is
\* skipped and the loop goes on.
C16_FailedLiveFetchSkipped ==
    (last_op.op = "sent" /\ last_op.live = "HTTPError") =>
        pc # "terminated"

\* C19: the watermark of the code: last_seq_num is None at the start and is
\* changed only by the handling of a sent notification that runs to its last
\* statement, which sets it to that notification's number; a handling that an
\* exception interrupts leaves it, whatever catch_up has written by then.
C19_WatermarkIsLastCompleted ==
    /\ (last_op.op = "start") => last_seq_num = None
    /\ (last_op.op = "sent") =>
           last_seq_num = IF last_op.exc = "none" THEN last_op.seq
                          ELSE last_op.before
    /\ (last_op.op \notin {"start", "sent"}) => last_seq_num = last_op.before

C19_Witness ==
    /\ last_op.op = "sent"
    /\ last_op.exc = "ChunkedEncodingError"
    /\ last_op.wrote >= 1
    /\ last_op.before # None
    /\ last_seq_num = last_op.before
    /\ pc = "connecting"

\* C18: duplicate notification: when a sent notification carries the number
\* the watermark already holds, no request by sequence number is made and
\* nothing is backfilled, the announced message is fetched by uuid and, when
\* returned, written as one more record, and the watermark keeps its value.
C18_DuplicateNotification ==
    (last_op.op = "sent" /\ last_op.before # None
         /\ last_op.seq = last_op.before) =>
        /\ last_op.fetched = << >>
        /\ last_op.live # "none"
        /\ last_seq_num = last_op.before
        /\ (last_op.live = "ok") =>
               /\ last_op.exc = "none"
               /\ last_op.wrote = 1
               /\ WrittenSeqNums = << last_op.seq >>

C18_Witness ==
    /\ last_op.op = "sent"
    /\ last_op.before = last_op.seq
    /\ last_op.live = "ok"
    /\ last_seq_num = last_op.seq
    /\ pipe = << create_output_data_struct(MessageData(last_seq_num)) >>

\* C17: frame round trip: for every payload, the empty one included, the
\* record is the 64-byte delimiter, the payload length as an 8-byte unsigned
\* integer and the payload unmodified, so parsing the header back recovers
\* the length and the bytes; the record of the empty payload is the header
\* alone with length 0.
C17_FrameRoundTrip ==
    (last_op.op = "encode") =>
        LET frame  == pipe[Len(pipe)]
            length == UnpackQ(SubSeq(frame, Len(OUT_DATA_DELIMITER) + 1,
                                     HeaderLen))
        IN  /\ SubSeq(frame, 1, Len(OUT_DATA_DELIMITER)) = OUT_DATA_DELIMITER
            /\ length = Len(last_op.data)
            /\ Len(frame) = HeaderLen + length
            /\ SubSeq(frame, HeaderLen + 1, HeaderLen + length) = last_op.data
            /\ (last_op.data = << >>) =>
                   frame = OUT_DATA_DELIMITER \o [i \in 1 .. 8 |-> 0]

C17_Witness ==
    /\ last_op.op = "encode"
    /\ Len(last_op.data) = 300
    /\ pipe[1][Len(OUT_DATA_DELIMITER) + 1] = 44
    /\ pipe[1][Len(OUT_DATA_DELIMITER) + 2] = 1
    /\ FramePayload(pipe[1]) = last_op.data

=============================================================================
